---- MODULE Spec2Model ----
(***************************************************************************)
(* Streaming trade engine of Binance_trading_bot.                          *)
(*                                                                         *)
(* Spec     : the session controller (bot_control/control_center.py), the  *)
(*            session root task (run_trading_stream.trade_main), the       *)
(*            listen_klines manager task with its worker thread and the    *)
(*            price_processor task, scheduled by an asyncio event loop.    *)
(*            The loop is modelled by its FIFO ready queue: one action is  *)
(*            one run of a coroutine from one suspension point to the      *)
(*            next.  Timers, I/O completions and incoming commands are the *)
(*            only nondeterminism.                                         *)
(* SpecFair : Spec with the event loop running its ready callbacks and the  *)
(*            sleeps of the controller calls elapsing.                     *)
(* SpecRace : the same system under a longer series of commands.           *)
(* SpecTick : one price_processor, from its history fetch through the      *)
(*            price ticks it works off against the position store, under   *)
(*            the shipped settings and under overlapping thresholds.       *)
(* SpecStore: the functions that write the position file, and the          *)
(*            take-profit check that reads it, each applied to every       *)
(*            state of the file.                                           *)
(* SpecStream: one session's market data path: the _listen_thread worker   *)
(*            with its WebSocket connection, the puts it schedules on the  *)
(*            event loop, the bounded asyncio.Queue, the price_processor   *)
(*            loop that drains it, the listen_klines manager and           *)
(*            trade_main's gather, under the session's stop event.         *)
(* SpecStreamFair: SpecStream with every thread and every ready callback   *)
(*            eventually scheduled.                                        *)
(***************************************************************************)
EXTENDS Integers, Sequences, FiniteSets, TLC

\* ---------------------------------------------------------------- bounds
\* Spec: controller calls (start_trading or stop_trading, in any mix)
MaxCalls == 3
\* SpecRace: start_trading calls and stop_trading calls
MaxStarts == 3
MaxStops == 2
\* SpecTick: prices dequeued by the price processor
MaxTicks == 2
\* SpecStream: closing prices received by the worker thread, and the
\* capacity of the price queue (asyncio.Queue(maxsize=100) in the code)
MaxPrices == 3
QueueMaxsize == 1

\* ------------------------------------------------------------- constants
None == 0
Smaller(a, b) == IF a < b THEN a ELSE b
Larger(a, b) == IF a > b THEN a ELSE b
Sessions == 1..Larger(MaxCalls, MaxStarts)
Calls == 1..Larger(MaxCalls, MaxStarts + MaxStops)
Profiles == {"xrp"}
TaskIds == {"main_task", "listener_task", "processor_task"} \X Sessions

VARIABLES
    CURRENT_STATE,  \* control_center.CURRENT_STATE
    task,           \* every asyncio.Task of every session
    stop_event,     \* the threading.Event of every session
    thread,         \* the _listen_thread worker of every session
    call,           \* the start_trading / stop_trading invocations
    ready,          \* the event loop's FIFO of callbacks ready to run
    waiters,        \* coroutines suspended in asyncio.gather, oldest first
    nSessions,      \* number of root tasks created so far
    nCalls,         \* number of controller invocations so far
    position,       \* data/last_buy_price_<symbol>.json: entry price or None
    tick,           \* price_processor's place in its loop and its locals
    orders,         \* place_order calls since the last price was dequeued
    nTicks,         \* number of prices dequeued so far
    reasons,        \* the reason_message of each of those place_order calls
    nTaskDone,      \* number of price_queue.task_done() calls so far
    settings,       \* config/settings.py: the thresholds, in thousandths
    price_history_deque,  \* price_processor's window of closing prices
    all_prices,     \* the accepted initial history, then every price dequeued
    store_call,     \* the latest call of a function of the position store
    worker,         \* _listen_thread: its place in the code and its locals
    open_sockets,   \* WebSocket connections created and not yet closed
    stop_event_local,  \* the session's threading.Event, as the stream sees it
    nPrices,        \* closing prices the worker thread has received so far
    loop_ready,     \* the event loop's ready callbacks of the data path
    price_queue,    \* the asyncio.Queue: its items and its waiting putters
    processor,      \* price_processor's loop and the latest price it got
    listener,       \* listen_klines: its place in the code and its log
    session_done    \* trade_main has returned

ctlVars == <<CURRENT_STATE, task, stop_event, thread, call, ready, waiters,
             nSessions, nCalls>>

tickVars == <<position, tick, orders, nTicks, reasons, nTaskDone, settings,
              price_history_deque, all_prices>>

\* What neither the controller nor the processor's ticks touch.
streamVars == <<worker, open_sockets, stop_event_local, nPrices, loop_ready,
                price_queue, processor, listener, session_done>>

restVars == <<store_call, streamVars>>

vars == <<CURRENT_STATE, task, stop_event, thread, call, ready, waiters,
          nSessions, nCalls, position, tick, orders, nTicks, reasons,
          nTaskDone, settings, price_history_deque, all_prices, store_call,
          worker, open_sockets, stop_event_local, nPrices, loop_ready,
          price_queue, processor, listener, session_done>>

\* ------------------------------------------------------ asyncio plumbing
\* A task that does not exist yet.
NoTask == [st |-> "none", pc |-> "", mc |-> FALSE, gcr |-> FALSE,
           res |-> "", ch |-> {}, aw |-> {}]

\* asyncio.create_task: the task exists and its first step is scheduled.
NewTask == [st |-> "ready", pc |-> "new", mc |-> FALSE, gcr |-> FALSE,
            res |-> "", ch |-> {}, aw |-> {}]

NoCall == [kind |-> "", st |-> "none", pc |-> "", profile |-> "None",
           aw |-> {}, res |-> ""]

TaskItem(tid) == <<"task", tid[1], tid[2]>>
DoneItem(tid) == <<"cb", tid[1], tid[2]>>
CallItem(c) == <<"call", "", c>>

\* The whole controller state as one value, so that code is composed
\* sequentially the way the Python source is.
Cur == [cs |-> CURRENT_STATE, task |-> task, ev |-> stop_event,
        th |-> thread, call |-> call, ready |-> ready,
        waiters |-> waiters, ns |-> nSessions]

Install(S) ==
    /\ CURRENT_STATE' = S.cs
    /\ task' = S.task
    /\ stop_event' = S.ev
    /\ thread' = S.th
    /\ call' = S.call
    /\ ready' = S.ready
    /\ waiters' = S.waiters
    /\ nSessions' = S.ns
    /\ UNCHANGED <<tickVars, restVars>>

\* The callback at the head of the ready queue starts to run.
Pop == [Cur EXCEPT !.ready = Tail(@)]

\* threading.Event.set()
SetEvent(S, e) == IF e = None THEN S ELSE [S EXCEPT !.ev[e] = "set"]

IsSet(S, e) == S.ev[e] = "set"

\* Task.done()
Done(S, tid) == S.task[tid].st = "done"

\* A task's coroutine returns or raises: the task is done and its done
\* callbacks are scheduled with call_soon.
Finish(S, tid, r) ==
    [S EXCEPT !.task[tid] = [NoTask EXCEPT !.st = "done", !.pc = "done",
                                           !.res = r],
              !.ready = Append(@, DoneItem(tid))]

\* A task suspends on a future (sleep, queue get, network I/O).
Block(S, tid, pc) ==
    [S EXCEPT !.task[tid].st = "blocked", !.task[tid].pc = pc]

\* Task.cancel() on a task that is not awaiting a gather: a task whose step
\* is already scheduled gets _must_cancel; a suspended one has its future
\* cancelled, which schedules its wake-up.
CancelSimple(S, tid) ==
    LET x == S.task[tid] IN
    CASE x.st = "ready" -> [S EXCEPT !.task[tid].mc = TRUE]
      [] x.st = "blocked" ->
            [S EXCEPT !.task[tid].mc = TRUE, !.task[tid].st = "ready",
                      !.ready = Append(@, TaskItem(tid))]
      [] OTHER -> S

CancelIn(S, set, tid) == IF tid \in set THEN CancelSimple(S, tid) ELSE S

\* Task.cancel() in general.  A task suspended in asyncio.gather forwards the
\* cancellation to the gather's children (_GatheringFuture.cancel); the
\* gather then raises CancelledError once its children are done.  If no
\* child could be cancelled the task itself is marked _must_cancel.
CancelTask(S, tid) ==
    LET x == S.task[tid] IN
    IF x.st = "blocked" /\ x.pc \in {"tm_gather", "tm_cleanup"}
    THEN LET live == {k \in x.ch : ~Done(S, k)}
             S1 == CancelIn(S, x.ch, <<"listener_task", tid[2]>>)
             S2 == CancelIn(S1, x.ch, <<"processor_task", tid[2]>>)
         IN IF live # {} THEN [S2 EXCEPT !.task[tid].gcr = TRUE]
                         ELSE [S EXCEPT !.task[tid].mc = TRUE]
    ELSE CancelSimple(S, tid)

\* One done callback of a finished task reaches one waiting gather.
\* A gather without return_exceptions (trade_main's) completes at once when
\* a child was cancelled; every gather completes when all children are in.
WaiterHit(S, w, tid) ==
    IF w[1] = "call" THEN tid \in S.call[w[3]].aw
    ELSE tid \in S.task[<<w[2], w[3]>>].aw

WaiterDone(S, w, tid) ==
    IF w[1] = "call" THEN S.call[w[3]].aw = {tid}
    ELSE LET x == S.task[<<w[2], w[3]>>] IN
         \/ x.aw = {tid}
         \/ x.pc = "tm_gather" /\ S.task[tid].res = "cancelled"

WaiterWake(S, w, tid) ==
    IF w[1] = "call"
    THEN [S EXCEPT !.call[w[3]].aw = {}, !.call[w[3]].st = "ready",
                   !.ready = Append(@, w)]
    ELSE [S EXCEPT !.task[<<w[2], w[3]>>].aw = @ \ {tid},
                   !.task[<<w[2], w[3]>>].st = "ready",
                   !.ready = Append(@, w)]

WaiterCount(S, w, tid) ==
    IF w[1] = "call" THEN [S EXCEPT !.call[w[3]].aw = @ \ {tid}]
    ELSE [S EXCEPT !.task[<<w[2], w[3]>>].aw = @ \ {tid}]

RECURSIVE RunDoneCallbacks(_, _, _)
RunDoneCallbacks(S, ws, tid) ==
    IF ws = <<>> THEN S
    ELSE LET w == Head(ws) IN
         IF ~WaiterHit(S, w, tid)
         THEN LET R == RunDoneCallbacks(S, Tail(ws), tid)
              IN [R EXCEPT !.waiters = <<w>> \o @]
         ELSE IF WaiterDone(S, w, tid)
         THEN RunDoneCallbacks(WaiterWake(S, w, tid), Tail(ws), tid)
         ELSE LET R == RunDoneCallbacks(WaiterCount(S, w, tid), Tail(ws), tid)
              IN [R EXCEPT !.waiters = <<w>> \o @]

\* The done callbacks of a finished task run, in registration order.
DoneCallbacks ==
    /\ ready # <<>>
    /\ Head(ready)[1] = "cb"
    /\ LET tid == <<Head(ready)[2], Head(ready)[3]>>
           S0 == [Pop EXCEPT !.waiters = <<>>]
       IN Install(RunDoneCallbacks(S0, waiters, tid))
    /\ UNCHANGED nCalls

\* ------------------------------------------------ the session's root task
MainId(s) == <<"main_task", s>>
ListenerId(s) == <<"listener_task", s>>
ProcessorId(s) == <<"processor_task", s>>

\* trade_main, second try block: create and register the two children and
\* suspend in asyncio.gather(listener_task, processor_task).
trade_main_register(S, s) ==
    LET kids == {ListenerId(s), ProcessorId(s)} IN
    [S EXCEPT !.cs.stop_event = s,
              !.task[ListenerId(s)] = NewTask,
              !.task[ProcessorId(s)] = NewTask,
              !.cs.listener_task = s,
              !.cs.processor_task = s,
              !.task[MainId(s)].st = "blocked",
              !.task[MainId(s)].pc = "tm_gather",
              !.task[MainId(s)].ch = kids,
              !.task[MainId(s)].aw = kids,
              !.ready = @ \o <<TaskItem(ListenerId(s)), TaskItem(ProcessorId(s))>>,
              !.waiters = Append(@, TaskItem(MainId(s)))]

\* trade_main, first try block: a fresh threading.Event; a registered event
\* of another session that is not set is set and given 0.5 s.
trade_main_begin(S, s) ==
    LET S1 == [S EXCEPT !.ev[s] = "unset"]
        cur == S.cs.stop_event
    IN IF cur # None /\ ~IsSet(S, cur)
       THEN Block(SetEvent(S1, cur), MainId(s), "tm_sleep")
       ELSE trade_main_register(S1, s)

\* trade_main, except asyncio.CancelledError: set the event, cancel the
\* children that are not done and gather them with return_exceptions=True.
trade_main_cancelled(S, s) ==
    LET S1 == SetEvent(S, s)
        tc == {k \in {ListenerId(s), ProcessorId(s)} : ~Done(S, k)}
        S2 == CancelIn(S1, tc, ListenerId(s))
        S3 == CancelIn(S2, tc, ProcessorId(s))
    IN IF tc # {}
       THEN [S3 EXCEPT !.task[MainId(s)].st = "blocked",
                       !.task[MainId(s)].pc = "tm_cleanup",
                       !.task[MainId(s)].mc = FALSE,
                       !.task[MainId(s)].gcr = FALSE,
                       !.task[MainId(s)].ch = tc,
                       !.task[MainId(s)].aw = tc,
                       !.waiters = Append(@, TaskItem(MainId(s)))]
       ELSE Finish(S1, MainId(s), "ok")

\* One run of trade_main_for_telegram / trade_main up to its next await.
\* profile_ok: get_profile_by_name returned a usable profile.
trade_main_step(S, s, profile_ok) ==
    LET x == S.task[MainId(s)] IN
    CASE x.pc = "new" ->
            IF x.mc THEN Finish(S, MainId(s), "cancelled")
            ELSE IF ~profile_ok THEN Block(S, MainId(s), "notify")
            ELSE trade_main_begin(S, s)
      [] x.pc = "notify" ->
            Finish(S, MainId(s), IF x.mc THEN "cancelled" ELSE "ok")
      [] x.pc = "tm_sleep" ->
            IF x.mc THEN Finish(S, MainId(s), "cancelled")
            ELSE trade_main_register(S, s)
      [] x.pc = "tm_gather" ->
            IF \/ x.mc
               \/ x.gcr
               \/ \E k \in x.ch \ x.aw : S.task[k].res = "cancelled"
            THEN trade_main_cancelled(S, s)
            ELSE Finish(SetEvent(S, s), MainId(s), "ok")
      [] x.pc = "tm_cleanup" ->
            Finish(SetEvent(S, s), MainId(s),
                   IF x.mc \/ x.gcr THEN "cancelled" ELSE "ok")
      [] OTHER -> S

trade_main ==
    /\ ready # <<>>
    /\ Head(ready)[1] = "task" /\ Head(ready)[2] = "main_task"
    /\ \E profile_ok \in BOOLEAN :
          /\ (~profile_ok => task[MainId(Head(ready)[3])].pc = "new")
          /\ Install(trade_main_step(Pop, Head(ready)[3], profile_ok))
    /\ UNCHANGED nCalls

\* ------------------------------------------------------- listen_klines
\* listen_klines, finally: make sure the event is set and join the worker
\* thread for at most 10 s.  joined: the thread ended within the timeout.
listen_klines_finally(S, s, joined) ==
    LET S1 == SetEvent(S, s)
        S2 == IF S1.th[s] = "alive" /\ joined
              THEN [S1 EXCEPT !.th[s] = "dead"] ELSE S1
    IN Finish(S2, ListenerId(s), "ok")

\* while not stop_event.is_set() and thread.is_alive(): await sleep(0.1)
listen_klines_loop(S, s, joined) ==
    IF IsSet(S, s) \/ S.th[s] # "alive"
    THEN listen_klines_finally(S, s, joined)
    ELSE Block(S, ListenerId(s), "sleep")

listen_klines_step(S, s, joined) ==
    LET x == S.task[ListenerId(s)] IN
    CASE x.pc = "new" ->
            IF x.mc THEN Finish(S, ListenerId(s), "cancelled")
            ELSE listen_klines_loop([S EXCEPT !.th[s] = "alive"], s, joined)
      [] x.pc = "sleep" ->
            IF x.mc THEN listen_klines_finally(S, s, joined)
            ELSE listen_klines_loop(S, s, joined)
      [] OTHER -> S

listen_klines ==
    /\ ready # <<>>
    /\ Head(ready)[1] = "task" /\ Head(ready)[2] = "listener_task"
    /\ \E joined \in BOOLEAN :
          Install(listen_klines_step(Pop, Head(ready)[3], joined))
    /\ UNCHANGED nCalls

\* _listen_thread leaves its loops once the event is set.  While the
\* listener task lives it is the join in listen_klines that observes the
\* thread's end; afterwards a thread that outlived the join ends by itself.
listen_thread_exit ==
    /\ \E s \in Sessions :
          /\ thread[s] = "alive"
          /\ stop_event[s] = "set"
          /\ task[ListenerId(s)].st = "done"
          /\ thread' = [thread EXCEPT ![s] = "dead"]
    /\ UNCHANGED <<CURRENT_STATE, task, stop_event, call, ready, waiters,
                   nSessions, nCalls, tickVars, restVars>>

\* ------------------------------------------- price_processor (lifecycle)
\* history_ok: get_initial_ohlcv returned at least MIN_PRICE_HISTORY_FOR_TRADE
\* prices.  In its loop the processor is woken by the 1 s timeout of its
\* queue wait, where it leaves if the event is set, or by a price; a tick
\* that ends normally changes nothing here, so only the tick from which an
\* exception escapes is a step.
price_processor_step(S, s, history_ok) ==
    LET x == S.task[ProcessorId(s)] IN
    CASE x.pc = "new" ->
            IF x.mc THEN Finish(S, ProcessorId(s), "cancelled")
            ELSE IF ~history_ok THEN Finish(SetEvent(S, s), ProcessorId(s), "ok")
            ELSE IF IsSet(S, s) THEN Finish(S, ProcessorId(s), "ok")
            ELSE Block(S, ProcessorId(s), "wait")
      [] x.pc = "wait" ->
            IF x.mc THEN Finish(S, ProcessorId(s), "ok")
            ELSE Finish(SetEvent(S, s), ProcessorId(s), "ok")
      [] OTHER -> S

price_processor_task ==
    /\ ready # <<>>
    /\ Head(ready)[1] = "task" /\ Head(ready)[2] = "processor_task"
    /\ \E history_ok \in BOOLEAN :
          LET x == task[ProcessorId(Head(ready)[3])] IN
          /\ (~history_ok => x.pc = "new" /\ ~x.mc)
          /\ Install(price_processor_step(Pop, Head(ready)[3], history_ok))
    /\ UNCHANGED nCalls

\* A timer expires or an I/O completes: the suspended task is rescheduled.
\* A listener is only woken when its loop condition has changed, a
\* processor when a price or its 1 s timeout arrives.
task_wakeup ==
    /\ \E tid \in TaskIds :
          /\ task[tid].st = "blocked"
          /\ task[tid].pc \in {"notify", "tm_sleep", "sleep", "wait"}
          /\ (task[tid].pc = "sleep" =>
                 stop_event[tid[2]] = "set" \/ thread[tid[2]] # "alive")
          /\ task' = [task EXCEPT ![tid].st = "ready"]
          /\ ready' = Append(ready, TaskItem(tid))
    /\ UNCHANGED <<CURRENT_STATE, stop_event, thread, call, waiters,
                   nSessions, nCalls, tickVars, restVars>>

\* ------------------------------------------------- the session controller
Registered(S, key) ==
    IF S.cs[key] = None THEN {} ELSE {<<key, S.cs[key]>>}

\* if task and not task.done(): task.cancel(); tasks_to_cancel_and_await.append(task)
cancel_registered(S, key) ==
    IF S.cs[key] # None /\ ~Done(S, <<key, S.cs[key]>>)
    THEN CancelTask(S, <<key, S.cs[key]>>) ELSE S

\* _internal_stop_logic awaiting every registered task, done or not.
tasks_to_cancel_and_await_all(S) ==
    Registered(S, "main_task") \cup Registered(S, "listener_task")
        \cup Registered(S, "processor_task")

\* The tasks _internal_stop_logic cancels and then awaits.
tasks_to_cancel_and_await(S) ==
    {tid \in Registered(S, "main_task") \cup Registered(S, "listener_task")
             \cup Registered(S, "processor_task") : ~Done(S, tid)}

\* start_trading after _internal_stop_logic: reset CURRENT_STATE, register
\* the profile, set running, create the root task and sleep 0.5 s.
start_trading_launch(S, c) ==
    LET s == S.ns + 1 IN
    [S EXCEPT !.cs = [running |-> TRUE, profile_name |-> S.call[c].profile,
                      main_task |-> s, listener_task |-> None,
                      processor_task |-> None, stop_event |-> None],
              !.task[MainId(s)] = NewTask,
              !.ready = Append(@, TaskItem(MainId(s))),
              !.ns = s,
              !.call[c].st = "blocked",
              !.call[c].pc = "s_sleep",
              !.call[c].profile = "None"]

Return(S, c, msg) ==
    [S EXCEPT !.call[c] = [NoCall EXCEPT !.kind = S.call[c].kind,
                                         !.st = "done", !.pc = "done",
                                         !.res = msg]]

\* stop_trading that forgets to drop the stop_event.
stop_trading_clear_keeps_event(S, c) ==
    Return([S EXCEPT !.cs = [running |-> FALSE, profile_name |-> "None",
                             main_task |-> None, listener_task |-> None,
                             processor_task |-> None,
                             stop_event |-> S.cs.stop_event]],
           c, "stopped")

\* stop_trading after _internal_stop_logic: clear CURRENT_STATE.
stop_trading_clear(S, c) ==
    Return([S EXCEPT !.cs = [running |-> FALSE, profile_name |-> "None",
                             main_task |-> None, listener_task |-> None,
                             processor_task |-> None, stop_event |-> None]],
           c, "stopped")

after_internal_stop_logic(S, c) ==
    IF S.call[c].kind = "start" THEN start_trading_launch(S, c)
    ELSE stop_trading_clear(S, c)

\* _internal_stop_logic, part 2: cancel the registered tasks that are not
\* done, in the order main, listener, processor, and gather them.
internal_stop_logic_cancel(S, c) ==
    LET tc == tasks_to_cancel_and_await(S)
        S1 == cancel_registered(S, "main_task")
        S2 == cancel_registered(S1, "listener_task")
        S3 == cancel_registered(S2, "processor_task")
    IN IF tc # {}
       THEN [S3 EXCEPT !.call[c].st = "blocked",
                       !.call[c].pc = "isl_gather",
                       !.call[c].aw = tc,
                       !.waiters = Append(@, CallItem(c))]
       ELSE after_internal_stop_logic(S, c)

\* _internal_stop_logic, part 1: set a registered event that is not set and
\* sleep 0.2 s.
internal_stop_logic(S, c) ==
    LET e == S.cs.stop_event IN
    IF e # None /\ ~IsSet(S, e)
    THEN [SetEvent(S, e) EXCEPT !.call[c].st = "blocked",
                                !.call[c].pc = "isl_sleep"]
    ELSE internal_stop_logic_cancel(S, c)

\* start_trading without its check of CURRENT_STATE["running"].
start_trading_step_unguarded(S, c) ==
    LET x == S.call[c] IN
    CASE x.pc = "begin" -> internal_stop_logic(S, c)
      [] x.pc = "isl_sleep" -> internal_stop_logic_cancel(S, c)
      [] x.pc = "isl_gather" -> after_internal_stop_logic(S, c)
      [] x.pc = "s_sleep" -> Return(S, c, "started")
      [] OTHER -> S

start_trading_step(S, c) ==
    LET x == S.call[c] IN
    CASE x.pc = "begin" ->
            IF S.cs.running THEN Return(S, c, "already_running")
            ELSE internal_stop_logic(S, c)
      [] x.pc = "isl_sleep" -> internal_stop_logic_cancel(S, c)
      [] x.pc = "isl_gather" -> after_internal_stop_logic(S, c)
      [] x.pc = "s_sleep" -> Return(S, c, "started")
      [] OTHER -> S

has_active_components(S) ==
    \/ S.cs.running
    \/ S.cs.main_task # None
    \/ S.cs.listener_task # None
    \/ S.cs.processor_task # None
    \/ S.cs.stop_event # None

\* stop_trading whose gather lacks return_exceptions=True: the CancelledError
\* of an awaited task is raised in the call.
stop_trading_step_propagating(S, c) ==
    LET x == S.call[c] IN
    CASE x.pc = "begin" ->
            IF ~has_active_components(S)
            THEN Return([S EXCEPT !.cs.running = FALSE,
                                  !.cs.profile_name = "None"],
                        c, "already_stopped")
            ELSE internal_stop_logic(S, c)
      [] x.pc = "isl_sleep" -> internal_stop_logic_cancel(S, c)
      [] x.pc = "isl_gather" ->
            IF \E k \in {"main_task", "listener_task", "processor_task"} :
                  /\ S.cs[k] # None
                  /\ S.task[<<k, S.cs[k]>>].res = "cancelled"
            THEN Return(S, c, "CancelledError")
            ELSE after_internal_stop_logic(S, c)
      [] OTHER -> S

stop_trading_step(S, c) ==
    LET x == S.call[c] IN
    CASE x.pc = "begin" ->
            IF ~has_active_components(S)
            THEN Return([S EXCEPT !.cs.running = FALSE,
                                  !.cs.profile_name = "None"],
                        c, "already_stopped")
            ELSE internal_stop_logic(S, c)
      [] x.pc = "isl_sleep" -> internal_stop_logic_cancel(S, c)
      [] x.pc = "isl_gather" -> after_internal_stop_logic(S, c)
      [] OTHER -> S

start_trading ==
    /\ ready # <<>>
    /\ Head(ready)[1] = "call"
    /\ call[Head(ready)[3]].kind = "start"
    /\ Install(start_trading_step(Pop, Head(ready)[3]))
    /\ UNCHANGED nCalls

stop_trading ==
    /\ ready # <<>>
    /\ Head(ready)[1] = "call"
    /\ call[Head(ready)[3]].kind = "stop"
    /\ Install(stop_trading_step(Pop, Head(ready)[3]))
    /\ UNCHANGED nCalls

\* The 0.2 s / 0.5 s sleep of a controller call elapses.
call_wakeup ==
    /\ \E c \in Calls :
          /\ call[c].st = "blocked"
          /\ call[c].pc \in {"isl_sleep", "s_sleep"}
          /\ call' = [call EXCEPT ![c].st = "ready"]
          /\ ready' = Append(ready, CallItem(c))
    /\ UNCHANGED <<CURRENT_STATE, task, stop_event, thread, waiters,
                   nSessions, nCalls, tickVars, restVars>>

NumCalls(kind) == Cardinality({c \in Calls : call[c].kind = kind})

\* A Telegram handler reaches its call of start_trading(profile_name, ...).
handle_run_profile_callback(allowed) ==
    /\ allowed
    /\ \E p \in Profiles :
          call' = [call EXCEPT ![nCalls + 1] =
                      [NoCall EXCEPT !.kind = "start", !.st = "ready",
                                     !.pc = "begin", !.profile = p]]
    /\ ready' = Append(ready, CallItem(nCalls + 1))
    /\ nCalls' = nCalls + 1
    /\ UNCHANGED <<CURRENT_STATE, task, stop_event, thread, waiters,
                   nSessions, tickVars, restVars>>

\* A Telegram handler (or the shutdown path) reaches its call of stop_trading().
handle_stop_button(allowed) ==
    /\ allowed
    /\ call' = [call EXCEPT ![nCalls + 1] =
                    [NoCall EXCEPT !.kind = "stop", !.st = "ready",
                                   !.pc = "begin"]]
    /\ ready' = Append(ready, CallItem(nCalls + 1))
    /\ nCalls' = nCalls + 1
    /\ UNCHANGED <<CURRENT_STATE, task, stop_event, thread, waiters,
                   nSessions, tickVars, restVars>>

\* The controller before any command.
InitControl ==
    /\ CURRENT_STATE = [running |-> FALSE, profile_name |-> "None",
                        main_task |-> None, listener_task |-> None,
                        processor_task |-> None, stop_event |-> None]
    /\ task = [tid \in TaskIds |-> NoTask]
    /\ stop_event = [s \in Sessions |-> "none"]
    /\ thread = [s \in Sessions |-> "none"]
    /\ call = [c \in Calls |-> NoCall]
    /\ ready = <<>>
    /\ waiters = <<>>
    /\ nSessions = 0
    /\ nCalls = 0

\* config/settings.py, ratios in thousandths.
USE_MIN_PROFIT == TRUE
MIN_PROFIT_RATIO == 2
USE_STOP_LOSS == TRUE
STOP_LOSS_RATIO == -20
USE_TAKE_PROFIT == TRUE
TAKE_PROFIT_RATIO == 50

\* run_trading_stream.py
PRICE_HISTORY_MAX_LEN == 250
MIN_PRICE_HISTORY_FOR_TRADE == 50

ShippedSettings ==
    [MIN_PROFIT_RATIO |-> MIN_PROFIT_RATIO,
     STOP_LOSS_RATIO |-> STOP_LOSS_RATIO,
     TAKE_PROFIT_RATIO |-> TAKE_PROFIT_RATIO]

\* What the collaborators of one risk check or trade answer: get_lot_size's
\* minQty, get_asset_balance_async's balance against minQty, and the outcome
\* of place_order; "filled_then_cancelled" is an order that place_order
\* confirmed, followed by a Task.cancel() that reaches the processor while it
\* is suspended in send_notification.
Answers == [min_qty : {"None", "value"},
            balance : {"None", "zero", "below_min", "enough"},
            outcome : {"filled", "failed", "raises", "filled_then_cancelled"}]

\* A price processor that has accepted its initial history and has not
\* dequeued a price yet, no position open.
\* pc is its place in the code, price the price in hand, indicators what the
\* indicator evaluation came to and signal what check_buy_sell_signals
\* returned, funded whether the latest step was answered with a minQty and
\* a balance of at least minQty, failed whether place_order was called in
\* the latest step and failed or raised, zero_balance whether the latest
\* step read a balance of exactly 0, cancelled whether the latest step
\* was ended by a CancelledError, fetch the result of the history
\* fetch, stop_event_set the processor's stop_event_ref.
NoTick == [pc |-> "get", price |-> 0, indicators |-> "none", signal |-> "none",
           funded |-> TRUE, failed |-> FALSE, zero_balance |-> FALSE,
           cancelled |-> FALSE,
           fetch |-> [raises |-> FALSE, size |-> MIN_PRICE_HISTORY_FOR_TRADE],
           stop_event_set |-> FALSE]

\* No function of the position store has been called yet.
NoStoreCall == [fn |-> "none", price |-> 0, before |-> 0]

\* binance_stream.py line 33
initial_reconnect_delay_sec == 5

\* A session whose listen_klines has started the worker thread and whose
\* price_processor has reached the head of its loop.
InitStream ==
    /\ worker = [pc |-> "outer", websocket_connection |-> "None",
                 delay |-> 0, message |-> "none", connects |-> 0]
    /\ open_sockets = 0
    /\ stop_event_local = FALSE
    /\ nPrices = 0
    /\ loop_ready = <<[k |-> "get", n |-> 0]>>
    /\ price_queue = [items |-> <<>>, putters |-> <<>>]
    /\ processor = [pc |-> "getting", price |-> 0]
    /\ listener = [pc |-> "sleep", log |-> "none"]
    /\ session_done = FALSE

InitRest == store_call = NoStoreCall /\ InitStream

Init ==
    /\ InitControl
    /\ InitRest
    /\ position = None
    /\ tick = NoTick
    /\ orders = <<>>
    /\ nTicks = 0
    /\ reasons = <<>>
    /\ nTaskDone = 0
    /\ settings = ShippedSettings
    /\ price_history_deque = <<>>
    /\ all_prices = <<>>

Next ==
    \/ handle_run_profile_callback(nCalls < MaxCalls)
    \/ handle_stop_button(nCalls < MaxCalls)
    \/ start_trading
    \/ stop_trading
    \/ call_wakeup
    \/ trade_main
    \/ listen_klines
    \/ price_processor_task
    \/ task_wakeup
    \/ listen_thread_exit
    \/ DoneCallbacks

Spec == Init /\ [][Next]_vars

\* The event loop runs the callback at the head of its ready queue.
run_once ==
    \/ start_trading
    \/ stop_trading
    \/ trade_main
    \/ listen_klines
    \/ price_processor_task
    \/ DoneCallbacks

\* The event loop keeps running its ready callbacks, and the sleeps of the
\* controller calls elapse.  Nothing is assumed about the commands, nor about
\* the timers and I/O the session tasks wait for.  The first conjunct is
\* WF_vars(run_once) with its enabling condition written out: run_once is
\* enabled exactly when the ready queue is not empty.
SpecFair ==
    /\ Spec
    /\ []<>(ready = <<>>) \/ []<><<run_once>>_vars
    /\ WF_vars(call_wakeup)

NextRace ==
    \/ handle_run_profile_callback(NumCalls("start") < MaxStarts)
    \/ handle_stop_button(NumCalls("stop") < MaxStops)
    \/ start_trading
    \/ stop_trading
    \/ call_wakeup
    \/ trade_main
    \/ listen_klines
    \/ price_processor_task
    \/ task_wakeup
    \/ listen_thread_exit
    \/ DoneCallbacks

SpecRace == Init /\ [][NextRace]_vars

\* ------------------------------------------------- price_processor ticks
Prices == {970, 990, 1000, 1010, 1060}

\* The shipped thresholds, and thresholds that overlap: a take-profit ratio
\* below the stop-loss ratio, so that both triggers can hold for one price.
SettingsChoices ==
    {ShippedSettings, [ShippedSettings EXCEPT !.TAKE_PROFIT_RATIO = -40]}

\* Number of candles the exchange returns for limit = PRICE_HISTORY_MAX_LEN + 50.
FetchSizes ==
    {0, MIN_PRICE_HISTORY_FOR_TRADE - 1, MIN_PRICE_HISTORY_FOR_TRADE,
     PRICE_HISTORY_MAX_LEN - 1, PRICE_HISTORY_MAX_LEN,
     PRICE_HISTORY_MAX_LEN + 50}

\* services/trade_logic.py: the closing prices of the candles returned, oldest
\* first (the i-th candle closed at price i); an empty array on an error.
get_initial_ohlcv(size) == [i \in 1..size |-> i]

\* seq[-n:]
LastN(seq, n) ==
    IF Len(seq) <= n THEN seq ELSE SubSeq(seq, Len(seq) - n + 1, Len(seq))

\* collections.deque(iterable, maxlen): keeps the last maxlen items.
deque(iterable, maxlen) == LastN(iterable, maxlen)

\* deque.append on a deque that was built without maxlen.
deque_append_unbounded(d, x) == Append(d, x)

\* deque.append on price_history_deque (maxlen = PRICE_HISTORY_MAX_LEN): a full
\* deque discards its oldest item.
deque_append(d, x) ==
    IF Len(d) = PRICE_HISTORY_MAX_LEN THEN Append(Tail(d), x) ELSE Append(d, x)

\* The history check that only looks at the exception.
initial_history_rejected_on_raise_only(raises, size) == raises

\* Lines 186-196: the fetch raised, or returned too few prices.
initial_history_rejected(raises, size) ==
    raises \/ size < MIN_PRICE_HISTORY_FOR_TRADE

\* utils/position_manager.py: the position file exists.
has_open_position(pos) == pos # None

\* Does not overwrite an existing position file.
save_last_buy_price(pos, price) == IF pos # None THEN pos ELSE price

load_last_buy_price(pos) == pos

\* clear_position that leaves the position file in place.
clear_position_keeps_file(pos) == pos

clear_position(pos) == None

\* A minimum-profit check that always passes.
is_enough_profit_always(current_price, last_buy_price) == TRUE

\* utils/profit_check.py
is_enough_profit(current_price, last_buy_price) ==
    IF last_buy_price = None \/ last_buy_price <= 0 THEN FALSE
    ELSE current_price * 1000 >=
            last_buy_price * (1000 + settings.MIN_PROFIT_RATIO)

\* A stop-loss that triggers on every price below the entry price.
is_stop_loss_triggered_on_any_loss(current_price, last_buy_price) ==
    last_buy_price # None /\ current_price < last_buy_price

\* A stop-loss check that never triggers.
is_stop_loss_triggered_never(current_price, last_buy_price) == FALSE

is_stop_loss_triggered(current_price, last_buy_price) ==
    IF ~USE_STOP_LOSS THEN FALSE
    ELSE IF last_buy_price = None \/ last_buy_price <= 0 THEN FALSE
    ELSE (current_price - last_buy_price) * 1000 <
            settings.STOP_LOSS_RATIO * last_buy_price

\* A take-profit check that needs the return to exceed the ratio.
is_take_profit_reached_strictly_above(current_price, last_buy_price) ==
    IF ~USE_TAKE_PROFIT THEN FALSE
    ELSE IF last_buy_price = None \/ last_buy_price <= 0 THEN FALSE
    ELSE (current_price - last_buy_price) * 1000 >
            settings.TAKE_PROFIT_RATIO * last_buy_price

is_take_profit_reached(current_price, last_buy_price) ==
    IF ~USE_TAKE_PROFIT THEN FALSE
    ELSE IF last_buy_price = None \/ last_buy_price <= 0 THEN FALSE
    ELSE (current_price - last_buy_price) * 1000 >=
            settings.TAKE_PROFIT_RATIO * last_buy_price

\* The order executor: it confirms the execution or it fails.
place_order(outcome) == outcome \in {"filled", "filled_then_cancelled"}

\* utils/notifier.py: await bot.send_message(...) suspends the processor and
\* swallows every Exception; a CancelledError delivered there propagates.
send_notification(outcome) ==
    IF outcome = "filled_then_cancelled" THEN "CancelledError" ELSE "sent"

\* The processor's view during one tick: the position file, the place_order
\* calls made so far with their reasons, and the value the last call returned.
Tick == [pos |-> position, orders |-> orders, reasons |-> reasons,
         result |-> FALSE, zero_balance |-> FALSE, cancelled |-> FALSE]

\* execute_trade_action with the bought price stored before the order's
\* confirmation is looked at.
execute_trade_action_speculative_buy(T, action_type, reason_message, execution_price, outcome) ==
    LET T1 == [T EXCEPT !.orders = Append(@, action_type),
                        !.reasons = Append(@, reason_message),
                        !.pos = IF action_type = "buy"
                                THEN save_last_buy_price(@, execution_price)
                                ELSE @] IN
    IF outcome = "raises" THEN [T1 EXCEPT !.result = FALSE]
    ELSE IF ~place_order(outcome) THEN [T1 EXCEPT !.result = FALSE]
    ELSE IF send_notification(outcome) = "CancelledError"
         THEN [T1 EXCEPT !.result = FALSE, !.cancelled = TRUE]
    ELSE [T1 EXCEPT !.pos = IF action_type = "buy" THEN @
                             ELSE clear_position(@),
                    !.result = TRUE]

\* execute_trade_action with the position file removed before the order's
\* confirmation is looked at.
execute_trade_action_speculative_sell(T, action_type, reason_message, execution_price, outcome) ==
    LET T1 == [T EXCEPT !.orders = Append(@, action_type),
                        !.reasons = Append(@, reason_message),
                        !.pos = IF action_type = "sell"
                                THEN clear_position(@)
                                ELSE @] IN
    IF outcome = "raises" THEN [T1 EXCEPT !.result = FALSE]
    ELSE IF ~place_order(outcome) THEN [T1 EXCEPT !.result = FALSE]
    ELSE IF send_notification(outcome) = "CancelledError"
         THEN [T1 EXCEPT !.result = FALSE, !.cancelled = TRUE]
    ELSE [T1 EXCEPT !.pos = IF action_type = "buy"
                             THEN save_last_buy_price(@, execution_price)
                             ELSE @,
                    !.result = TRUE]

\* execute_trade_action: one place_order call; the position store is
\* updated only when the order was placed and the notification that follows
\* it has returned; an exception counts as a failure, and a CancelledError
\* is not caught here.
execute_trade_action(T, action_type, reason_message, execution_price, outcome) ==
    LET T1 == [T EXCEPT !.orders = Append(@, action_type),
                        !.reasons = Append(@, reason_message)] IN
    IF outcome = "raises" THEN [T1 EXCEPT !.result = FALSE]
    ELSE IF ~place_order(outcome) THEN [T1 EXCEPT !.result = FALSE]
    ELSE IF send_notification(outcome) = "CancelledError"
         THEN [T1 EXCEPT !.result = FALSE, !.cancelled = TRUE]
    ELSE [T1 EXCEPT !.pos = IF action_type = "buy"
                             THEN save_last_buy_price(@, execution_price)
                             ELSE clear_position(@),
                    !.result = TRUE]

\* The chain of lines 151-167 with take-profit looked at first.
risk_sell_reason_take_profit_first(current_price, last_buy_price, strategy_has_issued_sell) ==
    IF USE_TAKE_PROFIT /\ is_take_profit_reached(current_price, last_buy_price)
    THEN "take_profit"
    ELSE IF USE_STOP_LOSS /\ is_stop_loss_triggered(current_price, last_buy_price)
    THEN "stop_loss"
    ELSE IF /\ USE_MIN_PROFIT
            /\ ~strategy_has_issued_sell
            /\ is_enough_profit(current_price, last_buy_price)
    THEN "min_profit"
    ELSE "none"

\* Lines 151-167: the first condition that holds decides the sale and its
\* reason; "none" when the function falls through to return False.
risk_sell_reason(current_price, last_buy_price, strategy_has_issued_sell) ==
    IF USE_STOP_LOSS /\ is_stop_loss_triggered(current_price, last_buy_price)
    THEN "stop_loss"
    ELSE IF USE_TAKE_PROFIT /\ is_take_profit_reached(current_price, last_buy_price)
    THEN "take_profit"
    ELSE IF /\ USE_MIN_PROFIT
            /\ ~strategy_has_issued_sell
            /\ is_enough_profit(current_price, last_buy_price)
    THEN "min_profit"
    ELSE "none"

check_and_handle_risk_conditions(T, current_price, strategy_has_issued_sell, a) ==
    LET last_buy_price == load_last_buy_price(T.pos)
        No == [T EXCEPT !.result = FALSE]
        reason == risk_sell_reason(current_price, last_buy_price,
                                   strategy_has_issued_sell)
    IN
    IF ~has_open_position(T.pos) THEN No
    ELSE IF last_buy_price = None THEN No
    ELSE IF /\ current_price < last_buy_price
            /\ ~is_stop_loss_triggered(current_price, last_buy_price)
            /\ ~is_take_profit_reached(current_price, last_buy_price)
            /\ ~is_enough_profit(current_price, last_buy_price)
         THEN No
    ELSE IF a.min_qty = "None" THEN No
    ELSE IF a.balance = "None" THEN No
    ELSE IF a.balance = "below_min" THEN No
    ELSE IF a.balance = "zero" THEN [No EXCEPT !.pos = clear_position(@),
                                               !.zero_balance = TRUE]
    ELSE IF reason # "none"
         THEN execute_trade_action(T, "sell", reason, current_price, a.outcome)
    ELSE No

\* The 'buy' branch without its has_open_position check.
strategy_buy_unguarded(T, new_close_price, a) ==
    execute_trade_action(T, "buy", "strategy_buy", new_close_price, a.outcome)

\* strategy_action == 'buy': rejected when a position is open, else executed.
strategy_buy(T, new_close_price, a) ==
    IF has_open_position(T.pos) THEN T
    ELSE execute_trade_action(T, "buy", "strategy_buy", new_close_price,
                              a.outcome)

\* What the indicator evaluation comes to: a signal, or an exception.
Indicators == {"buy", "sell", "hold", "raises"}

\* services/trade_logic.py: an exception of the indicator calculation is
\* caught and answered with 'hold'.
check_buy_sell_signals(indicators) ==
    IF indicators = "raises" THEN "hold" ELSE indicators

\* The end of one step of the loop body.  Every way back to the head of the
\* loop passes one price_queue.task_done() (lines 227, 247, 283); the handler
\* of an escaped exception (lines 287-289) sets the stop event, and a
\* CancelledError (lines 285-286) ends the processor, whose event the
\* canceller has set.
InstallTick(T, next_pc, indicators, a) ==
    LET pc == IF T.cancelled THEN "ended" ELSE next_pc IN
    /\ position' = T.pos
    /\ orders' = T.orders
    /\ reasons' = T.reasons
    /\ tick' = [tick EXCEPT !.pc = pc,
                            !.indicators = indicators,
                            !.signal = IF indicators = "none" THEN "none"
                                       ELSE check_buy_sell_signals(indicators),
                            !.funded = a.min_qty = "value" /\ a.balance = "enough",
                            !.failed = /\ T.orders # orders
                                       /\ ~T.result
                                       /\ ~T.cancelled,
                            !.zero_balance = T.zero_balance,
                            !.cancelled = T.cancelled,
                            !.stop_event_set = @ \/ pc = "ended"]
    /\ nTaskDone' = IF pc = "get" THEN nTaskDone + 1 ELSE nTaskDone
    /\ UNCHANGED <<nTicks, settings, price_history_deque, all_prices, ctlVars,
                   restVars>>

\* Lines 185-202: the history fetch.  Too little history, or an exception,
\* sets the stop event and ends the processor; otherwise the window is
\* filled with the last PRICE_HISTORY_MAX_LEN prices.
price_processor_init ==
    /\ tick.pc = "init"
    /\ \E raises \in BOOLEAN, size \in FetchSizes :
          LET initial_close_prices_np ==
                  IF raises THEN <<>> ELSE get_initial_ohlcv(size)
              n == Len(initial_close_prices_np)
          IN
          IF initial_history_rejected(raises, n)
          THEN /\ tick' = [tick EXCEPT !.pc = "ended",
                                       !.fetch = [raises |-> raises, size |-> n],
                                       !.stop_event_set = TRUE]
               /\ UNCHANGED <<price_history_deque, all_prices>>
          ELSE /\ tick' = [tick EXCEPT !.pc = "get",
                                       !.fetch = [raises |-> raises, size |-> n]]
               /\ price_history_deque' =
                      deque(LastN(initial_close_prices_np, PRICE_HISTORY_MAX_LEN),
                            PRICE_HISTORY_MAX_LEN)
               /\ all_prices' = initial_close_prices_np
    /\ UNCHANGED <<position, orders, nTicks, reasons, nTaskDone, settings,
                   ctlVars,
                   restVars>>

\* Lines 205-220: new_close_price = await wait_for(price_queue.get(), 1.0),
\* appended to the window; a window still shorter than
\* MIN_PRICE_HISTORY_FOR_TRADE acknowledges the price and skips the tick.
price_processor_get ==
    /\ tick.pc = "get"
    /\ ~tick.stop_event_set
    /\ nTicks < MaxTicks
    /\ \E new_close_price \in Prices :
          /\ price_history_deque' =
                 deque_append(price_history_deque, new_close_price)
          /\ all_prices' = Append(all_prices, new_close_price)
          /\ IF Len(price_history_deque') < MIN_PRICE_HISTORY_FOR_TRADE
             THEN /\ tick' = [tick EXCEPT !.price = new_close_price,
                                          !.indicators = "none",
                                          !.signal = "none",
                                          !.funded = TRUE,
                                          !.failed = FALSE,
                                          !.zero_balance = FALSE]
                  /\ nTaskDone' = nTaskDone + 1
             ELSE /\ tick' = [tick EXCEPT !.pc = "risk",
                                          !.price = new_close_price,
                                          !.indicators = "none",
                                          !.signal = "none",
                                          !.funded = TRUE,
                                          !.failed = FALSE,
                                          !.zero_balance = FALSE]
                  /\ UNCHANGED nTaskDone
    /\ orders' = <<>>
    /\ reasons' = <<>>
    /\ nTicks' = nTicks + 1
    /\ UNCHANGED <<position, settings, ctlVars,
                   restVars>>

\* Step 1: the risk check before the strategy; a sale ends the tick.
price_processor_risk ==
    /\ tick.pc = "risk"
    /\ \E a \in Answers :
          LET T == check_and_handle_risk_conditions(Tick, tick.price, FALSE, a)
          IN InstallTick(T, IF T.result THEN "get" ELSE "strategy", "none", a)

\* Step 2, check_buy_sell_signals returned 'buy'.
price_processor_buy ==
    /\ tick.pc = "strategy"
    /\ \E a \in Answers, indicators \in Indicators :
          /\ check_buy_sell_signals(indicators) = "buy"
          /\ InstallTick(strategy_buy(Tick, tick.price, a), "get", indicators, a)

\* Step 2, check_buy_sell_signals returned 'sell': the risk check runs with
\* strategy_has_issued_sell, then proceed_with_strategy_sell is read without
\* ever having been assigned; the UnboundLocalError ends the processor.
price_processor_sell ==
    /\ tick.pc = "strategy"
    /\ \E a \in Answers, indicators \in Indicators :
          /\ check_buy_sell_signals(indicators) = "sell"
          /\ InstallTick(check_and_handle_risk_conditions(Tick, tick.price, TRUE, a),
                         "ended", indicators, a)

\* Step 2 and 3, check_buy_sell_signals returned 'hold': nothing was done in
\* this tick, so the risk check runs once more.
price_processor_hold ==
    /\ tick.pc = "strategy"
    /\ \E a \in Answers, indicators \in Indicators :
          /\ check_buy_sell_signals(indicators) = "hold"
          /\ InstallTick(check_and_handle_risk_conditions(Tick, tick.price, FALSE, a),
                         "get", indicators, a)

\* The position file may exist when the processor starts.
InitTick ==
    /\ InitControl
    /\ InitRest
    /\ position \in {None} \cup Prices
    /\ tick = [NoTick EXCEPT !.pc = "init"]
    /\ orders = <<>>
    /\ nTicks = 0
    /\ reasons = <<>>
    /\ nTaskDone = 0
    /\ settings \in SettingsChoices
    /\ price_history_deque = <<>>
    /\ all_prices = <<>>

NextTick ==
    \/ price_processor_init
    \/ price_processor_get
    \/ price_processor_risk
    \/ price_processor_buy
    \/ price_processor_sell
    \/ price_processor_hold

SpecTick == InitTick /\ [][NextTick]_vars

\* ---------------------------------------------------- the position store
\* The functions that write data/last_buy_price_<symbol>.json, each applied
\* to every state of the file.  Two modules define save_last_buy_price for
\* the same path: utils/position_manager.py, which price_processor imports,
\* and utils/profit_check.py, which the order executor imports.

\* utils/profit_check.py: the file is opened for writing whatever it holds.
profit_check_save_last_buy_price(pos, price) == price

\* What the exchange reports of the base asset: nothing worth a position, or
\* a balance of at least 1e-8.
Balances == {"absent", "held"}

\* The average price of the fills of the latest buy order; None when there
\* is no buy trade or the fills add up to a quantity of 0.
AvgPrices == {None} \cup Prices

\* utils/position_manager.py, position_manager(profile): with no position
\* file, a held balance and a latest buy order, the file is written with
\* that order's average price.
position_manager(pos, balance, avg_price) ==
    IF pos # None THEN pos
    ELSE IF balance = "absent" THEN pos
    ELSE IF avg_price = None THEN pos
    ELSE avg_price

StoreCall(fn, price) == [fn |-> fn, price |-> price, before |-> position]

StoreFrame == UNCHANGED <<ctlVars, tick, orders, nTicks, reasons, nTaskDone,
                          settings, price_history_deque, all_prices,
                          streamVars>>

call_save_last_buy_price ==
    /\ \E price \in Prices :
          /\ position' = save_last_buy_price(position, price)
          /\ store_call' = StoreCall("position_manager.save_last_buy_price", price)
    /\ StoreFrame

call_profit_check_save_last_buy_price ==
    /\ \E price \in Prices :
          /\ position' = profit_check_save_last_buy_price(position, price)
          /\ store_call' = StoreCall("profit_check.save_last_buy_price", price)
    /\ StoreFrame

call_clear_position ==
    /\ position' = clear_position(position)
    /\ store_call' = StoreCall("clear_position", 0)
    /\ StoreFrame

call_load_last_buy_price ==
    /\ position' = position
    /\ store_call' = StoreCall("load_last_buy_price", load_last_buy_price(position))
    /\ StoreFrame

call_position_manager ==
    /\ \E balance \in Balances, avg_price \in AvgPrices :
          /\ position' = position_manager(position, balance, avg_price)
          /\ store_call' = StoreCall("position_manager", avg_price)
    /\ StoreFrame

\* The prices a take-profit check is asked about: those of the ticks and one
\* that lies exactly TAKE_PROFIT_RATIO above an entry price of 1000.
TakeProfitPrices == Prices \cup {1050}

\* is_take_profit_reached(symbol, current_price, last_buy_price) with the
\* stored entry price, as check_and_handle_risk_conditions calls it.
call_is_take_profit_reached ==
    /\ \E current_price \in TakeProfitPrices :
          /\ position' = position
          /\ store_call' =
                 [fn |-> "is_take_profit_reached",
                  price |-> current_price,
                  before |-> position,
                  result |-> is_take_profit_reached(
                                 current_price, load_last_buy_price(position))]
    /\ StoreFrame

InitStore ==
    /\ InitControl
    /\ InitRest
    /\ position \in {None} \cup Prices
    /\ tick = NoTick
    /\ orders = <<>>
    /\ nTicks = 0
    /\ reasons = <<>>
    /\ nTaskDone = 0
    /\ settings = ShippedSettings
    /\ price_history_deque = <<>>
    /\ all_prices = <<>>

NextStore ==
    \/ call_save_last_buy_price
    \/ call_profit_check_save_last_buy_price
    \/ call_clear_position
    \/ call_load_last_buy_price
    \/ call_position_manager
    \/ call_is_take_profit_reached

SpecStore == InitStore /\ [][NextStore]_vars

\* --------------------------------------------------- the market data path
\* threading.Event.is_set() without its answer ever turning true.
is_set_never(event) == FALSE

\* threading.Event.is_set()
is_set(event) == event

\* What create_connection and settimeout of lines 43-51 come to.
Connects == {"connected", "connect_error", "settimeout_error"}

\* What websocket_connection.recv() and the handling of its result come to:
\* a read timeout or an empty message, a kline that is not closed, a closed
\* kline, a message json.loads cannot decode, the connection closed by the
\* exchange, any other exception.
Messages == {"timeout", "open_kline", "closed_kline", "undecodable",
             "remote_close", "error"}

\* The worker thread's view: its locals (pc its place in the code, message
\* the result of the latest recv(), connects whether it has created no
\* connection, one, or more) and the sockets it holds open.
Thread == [w |-> worker, sockets |-> open_sockets]

\* websocket_connection.close() that leaves the socket open.
websocket_close_noop(sockets) == sockets

\* websocket_connection.close()
websocket_close(sockets) == sockets - 1

close_connection(B) ==
    [B EXCEPT !.sockets = websocket_close(@),
              !.w.websocket_connection = "None"]

\* Lines 105-108: after the receive loop.
after_inner_loop(B) ==
    IF B.w.websocket_connection # "None" THEN close_connection(B) ELSE B

\* Lines 125-132: the finally of the outer try.
outer_finally(B) ==
    IF B.w.websocket_connection = "open" THEN close_connection(B) ELSE B

\* Lines 136-150: back off before the next attempt, or leave when the event
\* is set.
after_try(B) ==
    IF ~is_set(stop_event_local)
    THEN [B EXCEPT !.w.pc = "backoff",
                   !.w.delay = initial_reconnect_delay_sec]
    ELSE [B EXCEPT !.w.pc = "done"]

\* Lines 56-100: which results of recv() go back to the head of the receive
\* loop; the others break out of it.
receive_loop_continues(message) ==
    message \in {"timeout", "open_kline", "closed_kline", "undecodable"}

InstallThread(B) ==
    /\ worker' = B.w
    /\ open_sockets' = B.sockets

NotStream == <<ctlVars, tickVars, store_call>>

\* Lines 39-51 and 110-123: the head of the outer loop and one attempt to
\* connect.
listen_thread_connect ==
    /\ worker.pc = "outer"
    /\ IF ~is_set(stop_event_local)
       THEN \E outcome \in Connects :
               LET B == [Thread EXCEPT !.w.message = "none"] IN
               CASE outcome = "connected" ->
                       InstallThread([B EXCEPT !.sockets = @ + 1,
                                               !.w.websocket_connection = "open",
                                               !.w.connects = Smaller(@ + 1, 2),
                                               !.w.pc = "recv"])
                 [] outcome = "connect_error" ->
                       InstallThread(after_try(outer_finally(B)))
                 [] outcome = "settimeout_error" ->
                       InstallThread(after_try(outer_finally(
                           [B EXCEPT !.sockets = @ + 1,
                                     !.w.websocket_connection = "open",
                                     !.w.connects = Smaller(@ + 1, 2)])))
       ELSE InstallThread([Thread EXCEPT !.w.pc = "done"])
    /\ UNCHANGED <<stop_event_local, nPrices, loop_ready, price_queue,
                   processor, listener, session_done, NotStream>>

\* Lines 55-108: the head of the receive loop and one recv().  A closed
\* kline's price is handed to the event loop with run_coroutine_threadsafe
\* and the thread goes on without looking at the returned future.
listen_thread_recv ==
    /\ worker.pc = "recv"
    /\ IF ~is_set(stop_event_local)
       THEN \E message \in Messages :
               LET B == [Thread EXCEPT !.w.message = message] IN
               /\ message = "closed_kline" => nPrices < MaxPrices
               /\ IF receive_loop_continues(message)
                  THEN InstallThread(B)
                  ELSE InstallThread(after_try(outer_finally(after_inner_loop(B))))
               /\ IF message = "closed_kline"
                  THEN /\ nPrices' = nPrices + 1
                       /\ loop_ready' = Append(loop_ready,
                                               [k |-> "submit", n |-> nPrices + 1])
                  ELSE UNCHANGED <<nPrices, loop_ready>>
       ELSE /\ InstallThread(after_try(outer_finally(after_inner_loop(Thread))))
            /\ UNCHANGED <<nPrices, loop_ready>>
    /\ UNCHANGED <<stop_event_local, price_queue, processor, listener,
                   session_done, NotStream>>

\* Lines 139-143: one round of the interruptible delay.
listen_thread_backoff ==
    /\ worker.pc = "backoff"
    /\ worker' = IF is_set(stop_event_local) \/ worker.delay = 0
                 THEN [worker EXCEPT !.pc = "outer", !.delay = 0]
                 ELSE [worker EXCEPT !.delay = @ - 1]
    /\ UNCHANGED <<open_sockets, stop_event_local, nPrices, loop_ready,
                   price_queue, processor, listener, session_done, NotStream>>

\* Lines 136-150 lie outside every try of _listen_thread: an exception raised
\* there ends the thread with the event unset.
listen_thread_dies ==
    /\ worker.pc = "backoff"
    /\ ~is_set(stop_event_local)
    /\ worker' = [worker EXCEPT !.pc = "done", !.delay = 0,
                                !.message = "exception"]
    /\ UNCHANGED <<open_sockets, stop_event_local, nPrices, loop_ready,
                   price_queue, processor, listener, session_done, NotStream>>

\* The event loop's thread is the one that sits in the join of listen_klines.
LoopRuns == listener.pc # "join"

\* The loop's view: its ready callbacks, the queue and the processor.
Loop == [ready |-> loop_ready, q |-> price_queue, proc |-> processor]

InstallLoop(L) ==
    /\ loop_ready' = L.ready
    /\ price_queue' = L.q
    /\ processor' = L.proc

GetItem == [k |-> "get", n |-> 0]

full(q) == Len(q.items) >= QueueMaxsize

\* Queue.put_nowait: the item is stored and the waiting getter is woken.
put_nowait(L, n) ==
    LET L1 == [L EXCEPT !.q.items = Append(@, n)] IN
    IF L.proc.pc = "waiting"
    THEN [L1 EXCEPT !.proc.pc = "getting", !.ready = Append(@, GetItem)]
    ELSE L1

\* Queue.put, one run of the coroutine: while the queue is full it waits at
\* the end of the putters, otherwise it stores the item.
Queue_put(L, n) ==
    IF full(L.q) THEN [L EXCEPT !.q.putters = Append(@, n)]
    ELSE put_nowait(L, n)

\* Queue.get_nowait: the oldest item is taken and the first waiting putter
\* is woken, which schedules the rest of its coroutine.
get_nowait(L) ==
    LET L1 == [L EXCEPT !.q.items = Tail(@),
                        !.proc = [pc |-> "busy", price |-> Head(L.q.items)]]
    IN IF L.q.putters = <<>> THEN L1
       ELSE [L1 EXCEPT !.q.putters = Tail(@),
                       !.ready = Append(@, [k |-> "put", n |-> Head(L.q.putters)])]

\* Queue.get, one run of the coroutine.
Queue_get(L) ==
    IF L.q.items = <<>> THEN [L EXCEPT !.proc.pc = "waiting"]
    ELSE get_nowait(L)

LoopFrame == UNCHANGED <<worker, open_sockets, stop_event_local, nPrices,
                         listener, session_done, NotStream>>

\* run_coroutine_threadsafe's callback: the task of price_queue.put(price) is
\* created and its first run is scheduled.
loop_submit ==
    /\ LoopRuns
    /\ loop_ready # <<>>
    /\ Head(loop_ready).k = "submit"
    /\ InstallLoop([Loop EXCEPT !.ready = Append(Tail(@),
                                    [k |-> "put", n |-> Head(loop_ready).n])])
    /\ LoopFrame

\* binance_stream.py line 73: a run of price_queue.put(closing_price).
loop_put ==
    /\ LoopRuns
    /\ loop_ready # <<>>
    /\ Head(loop_ready).k = "put"
    /\ InstallLoop(Queue_put([Loop EXCEPT !.ready = Tail(@)],
                             Head(loop_ready).n))
    /\ LoopFrame

\* run_trading_stream.py line 208: a run of price_queue.get().
loop_get ==
    /\ LoopRuns
    /\ loop_ready # <<>>
    /\ Head(loop_ready).k = "get"
    /\ InstallLoop(Queue_get([Loop EXCEPT !.ready = Tail(@)]))
    /\ LoopFrame

\* Lines 208-211: the 1 s timeout of the queue wait; the loop is left when
\* the event is set, else the wait starts again.
price_processor_timeout ==
    /\ LoopRuns
    /\ processor.pc = "waiting"
    /\ is_set(stop_event_local)
    /\ processor' = [processor EXCEPT !.pc = "done"]
    /\ UNCHANGED <<worker, open_sockets, stop_event_local, nPrices, loop_ready,
                   price_queue, listener, session_done, NotStream>>

\* Lines 213-289: the rest of the tick.  It ends at task_done() and the head
\* of the loop, where the event is looked at before the next get(), or an
\* exception escapes, which sets the event.
price_processor_tick ==
    /\ LoopRuns
    /\ processor.pc = "busy"
    /\ \E raises \in BOOLEAN :
          IF raises
          THEN /\ processor' = [processor EXCEPT !.pc = "done"]
               /\ stop_event_local' = TRUE
               /\ UNCHANGED loop_ready
          ELSE IF is_set(stop_event_local)
          THEN /\ processor' = [processor EXCEPT !.pc = "done"]
               /\ UNCHANGED <<stop_event_local, loop_ready>>
          ELSE /\ processor' = [processor EXCEPT !.pc = "getting"]
               /\ loop_ready' = Append(loop_ready, GetItem)
               /\ UNCHANGED stop_event_local
    /\ UNCHANGED <<worker, open_sockets, nPrices, price_queue, listener,
                   session_done, NotStream>>

\* listen_klines that never sets the event itself.
listen_klines_leaves_event(event) == event

\* Lines 196-199, 216-218 and 224-226: on every way out of its loop
\* listen_klines sets the event unless it is set already.
listen_klines_set_event(event) == TRUE

\* listen_klines lines 190-231: the 0.1 s poll sees the event set or the
\* thread gone; the event is set and a thread still alive is joined.
listen_klines_poll ==
    /\ listener.pc = "sleep"
    /\ is_set(stop_event_local) \/ worker.pc = "done"
    /\ stop_event_local' = listen_klines_set_event(stop_event_local)
    /\ listener' = IF worker.pc # "done"
                   THEN [listener EXCEPT !.pc = "join"]
                   ELSE [pc |-> "done", log |-> "already_finished"]
    /\ UNCHANGED <<worker, open_sockets, nPrices, loop_ready, price_queue,
                   processor, session_done, NotStream>>

\* Lines 212-231: an exception other than CancelledError is raised inside
\* the try of listen_klines while the event is unset; it is logged, the event
\* is set and a thread still alive is joined.
listen_klines_raises ==
    /\ listener.pc = "sleep"
    /\ ~is_set(stop_event_local)
    /\ stop_event_local' = listen_klines_set_event(stop_event_local)
    /\ listener' = [pc |-> IF worker.pc # "done" THEN "join" ELSE "done",
                    log |-> "unexpected_error"]
    /\ UNCHANGED <<worker, open_sockets, nPrices, loop_ready, price_queue,
                   processor, session_done, NotStream>>

\* Lines 235-241: join(timeout=10.0) returns because the thread has ended,
\* or because the time is up with the thread alive, which is logged as an
\* error.
listen_klines_join ==
    /\ listener.pc = "join"
    /\ listener' = [pc |-> "done",
                    log |-> IF worker.pc = "done" THEN "joined"
                            ELSE "not_finished_error"]
    /\ UNCHANGED <<worker, open_sockets, stop_event_local, nPrices, loop_ready,
                   price_queue, processor, session_done, NotStream>>

\* trade_main lines 333-334 and 360-366: gather returns when both children
\* are done.
trade_main_gather ==
    /\ ~session_done
    /\ LoopRuns
    /\ listener.pc = "done"
    /\ processor.pc = "done"
    /\ session_done' = TRUE
    /\ stop_event_local' = TRUE
    /\ UNCHANGED <<worker, open_sockets, nPrices, loop_ready, price_queue,
                   processor, listener, NotStream>>

\* control_center.stop_trading: CURRENT_STATE["stop_event"].set()
stop_event_set ==
    /\ ~stop_event_local
    /\ stop_event_local' = TRUE
    /\ UNCHANGED <<worker, open_sockets, nPrices, loop_ready, price_queue,
                   processor, listener, session_done, NotStream>>

NextStream ==
    \/ listen_thread_connect
    \/ listen_thread_recv
    \/ listen_thread_backoff
    \/ listen_thread_dies
    \/ loop_submit
    \/ loop_put
    \/ loop_get
    \/ price_processor_timeout
    \/ price_processor_tick
    \/ listen_klines_poll
    \/ listen_klines_raises
    \/ listen_klines_join
    \/ trade_main_gather
    \/ stop_event_set

SpecStream == Init /\ [][NextStream]_vars

\* The operating system runs the worker thread, and the event loop runs
\* every ready callback, every timer and every finished tick; messages,
\* connection failures and the stop command come when they come.
SpecStreamFair ==
    /\ SpecStream
    /\ WF_vars(listen_thread_connect)
    /\ WF_vars(listen_thread_recv)
    /\ WF_vars(listen_thread_backoff)
    /\ WF_vars(loop_submit)
    /\ WF_vars(loop_put)
    /\ WF_vars(loop_get)
    /\ WF_vars(price_processor_timeout)
    /\ WF_vars(price_processor_tick)
    /\ WF_vars(listen_klines_poll)
    /\ WF_vars(listen_klines_join)
    /\ WF_vars(trade_main_gather)

\* ---------------------------------------------------------------- claims
Live(tid) == task[tid].st \notin {"none", "done"}

\* A complete set of live session components: a root task that is not done,
\* its listener and processor tasks not done, its worker thread alive.
LiveSession(s) ==
    /\ Live(MainId(s))
    /\ Live(ListenerId(s))
    /\ Live(ProcessorId(s))
    /\ thread[s] = "alive"

LiveSessions == {s \in Sessions : LiveSession(s)}

\* C1: at no time do two complete sets of live session components exist.
C1_AtMostOneLiveSession == Cardinality(LiveSessions) <= 1

FullyCleared ==
    CURRENT_STATE = [running |-> FALSE, profile_name |-> "None",
                     main_task |-> None, listener_task |-> None,
                     processor_task |-> None, stop_event |-> None]

RegisteredLive(key) ==
    /\ CURRENT_STATE[key] # None
    /\ Live(<<key, CURRENT_STATE[key]>>)

FullyRunning ==
    /\ CURRENT_STATE.running
    /\ RegisteredLive("main_task")
    /\ RegisteredLive("listener_task")
    /\ RegisteredLive("processor_task")
    /\ CURRENT_STATE.stop_event # None
    /\ stop_event[CURRENT_STATE.stop_event] = "unset"

\* No start_trading or stop_trading call is in mid-execution.
Quiescent == \A c \in Calls : call[c].st \in {"none", "done"}

\* Call c takes its first step (from entry to its first await or return).
Begins(c, kind) ==
    /\ call[c].kind = kind
    /\ call[c].pc = "begin"
    /\ call'[c].pc # "begin"

\* C2: a start_trading call that begins while running is True returns the
\* 'already running' message in that step, creates no task and leaves
\* CURRENT_STATE (and every task and event) unchanged.
C2_StartWhileRunningIsNoOp ==
    [][\A c \in Calls :
          (Begins(c, "start") /\ CURRENT_STATE.running) =>
              /\ call'[c].st = "done"
              /\ call'[c].res = "already_running"
              /\ CURRENT_STATE' = CURRENT_STATE
              /\ task' = task
              /\ nSessions' = nSessions
              /\ stop_event' = stop_event]_vars

C2_Witness ==
    \E c \in Calls :
        /\ call[c].res = "already_running"
        /\ CURRENT_STATE.running
        /\ nSessions = 1

\* C3: a stop_trading call that returns the 'stopped' message leaves
\* CURRENT_STATE fully cleared, and a stop_trading call that begins in the
\* fully cleared state returns the 'already stopped' message in that step,
\* sets no event, cancels no task and changes no field.
C3_StopTwiceInSequence ==
    [][\A c \in Calls :
          /\ (call[c].kind = "stop" /\ call[c].res = ""
                /\ call'[c].res = "stopped") => FullyCleared'
          /\ (Begins(c, "stop") /\ FullyCleared) =>
                /\ call'[c].st = "done"
                /\ call'[c].res = "already_stopped"
                /\ CURRENT_STATE' = CURRENT_STATE
                /\ task' = task
                /\ stop_event' = stop_event
                /\ waiters' = waiters]_vars

\* The first stop tore a registered session down, the second was a no-op.
C3_Witness ==
    \E c, d \in Calls :
        /\ c < d
        /\ call[c].res = "stopped"
        /\ call[d].res = "already_stopped"
        /\ nSessions = 1
        /\ task[ListenerId(1)].st = "done"
        /\ FullyCleared

\* C4: once every start_trading and stop_trading call has returned,
\* CURRENT_STATE is fully stopped or fully running, never half-registered.
C4_FullyStoppedOrFullyRunning == Quiescent => (FullyCleared \/ FullyRunning)

\* C5: the step of stop_trading that clears CURRENT_STATE is taken only when
\* every task registered in CURRENT_STATE is done.
C5_ClearedOnlyAfterTasksDone ==
    [][\A c \in Calls :
          (call[c].kind = "stop" /\ call[c].res = ""
             /\ call'[c].res = "stopped") =>
              \A k \in {"main_task", "listener_task", "processor_task"} :
                  ~RegisteredLive(k)]_vars

\* C6: a stop_trading call that begins while another stop_trading call is
\* suspended awaiting the tasks it cancelled returns in its first step: it
\* neither cancels again nor awaits.
C6_SecondStopReturnsPromptly ==
    [][\A c \in Calls :
          (/\ Begins(c, "stop")
           /\ \E d \in Calls \ {c} :
                 /\ call[d].kind = "stop"
                 /\ call[d].st = "blocked"
                 /\ call[d].pc = "isl_gather") =>
              call'[c].st = "done"]_vars

\* Nothing is running, scheduled or suspended: only a new call can change
\* the state.
AtRest ==
    /\ Quiescent
    /\ ready = <<>>
    /\ \A tid \in TaskIds : ~Live(tid)

\* C7: without any stop_trading call, the controller is never left at rest
\* with running True and no live session task.
C7_FailedStartReturnsToIdle ==
    (AtRest /\ NumCalls("stop") = 0) => ~CURRENT_STATE.running

\* The session registered in CURRENT_STATE has ended on its own: its root
\* task is done and no stop_trading call was ever made.
StaleSession ==
    /\ CURRENT_STATE.main_task # None
    /\ task[MainId(CURRENT_STATE.main_task)].st = "done"
    /\ NumCalls("stop") = 0

\* C8: a start_trading call that begins while the registered session has
\* ended on its own does not return the 'already running' message.
C8_StartAfterSelfTermination ==
    [][\A c \in Calls :
          (Begins(c, "start") /\ StaleSession) =>
              call'[c].res # "already_running"]_vars

\* C9: between two dequeued prices place_order is called at most once.
C9_AtMostOneOrderPerTick == Len(orders) <= 1

\* C10: place_order('buy') is only called while no position is open, and a
\* 'buy' signal that finds a position open ends the tick with no place_order
\* call and the position untouched.
C10_NoBuyWhilePositionOpen ==
    [][/\ (Len(orders') > Len(orders) /\ orders'[Len(orders')] = "buy") =>
              ~has_open_position(position)
       /\ (/\ tick.pc = "strategy"
           /\ tick'.signal = "buy"
           /\ has_open_position(position)) =>
              /\ orders' = orders
              /\ position' = position
              /\ tick'.pc = "get"]_vars

\* A tick in which 'buy' met an open position has ended.
C10_Witness ==
    /\ tick.signal = "buy"
    /\ tick.pc = "get"
    /\ orders = <<>>
    /\ has_open_position(position)

\* The return since entry (P - E) / E, in thousandths, is below ratio.
ReturnBelow(P, E, ratio) == (P - E) * 1000 < ratio * E

\* The stop-loss and take-profit trigger conditions for the price in hand.
StopLossHolds == ReturnBelow(tick.price, position, settings.STOP_LOSS_RATIO)

TakeProfitHolds ==
    ~ReturnBelow(tick.price, position, settings.TAKE_PROFIT_RATIO)

\* This step of the processor calls place_order(action_type) once.
PlacesOrder(action_type) ==
    /\ tick.pc \in {"risk", "strategy"}
    /\ Len(orders') = Len(orders) + 1
    /\ orders'[Len(orders')] = action_type

\* C11: while a position is open and the return of the price in hand is
\* below MIN_PROFIT_RATIO with neither stop-loss nor take-profit triggered,
\* no step of the tick calls place_order('sell'), whatever the strategy
\* signals; a 'sell' signal in particular places no order.
C11_MinProfitGate ==
    [][(/\ has_open_position(position)
        /\ ReturnBelow(tick.price, position, settings.MIN_PROFIT_RATIO)
        /\ ~StopLossHolds
        /\ ~TakeProfitHolds) =>
           /\ ~PlacesOrder("sell")
           /\ (tick.pc = "strategy" /\ tick'.signal = "sell") =>
                  orders' = orders]_vars

\* The strategy signalled 'sell' below the minimum profit and nothing was sold.
C11_Witness ==
    /\ tick.signal = "sell"
    /\ orders = <<>>
    /\ has_open_position(position)
    /\ ReturnBelow(tick.price, position, settings.MIN_PROFIT_RATIO)
    /\ ~StopLossHolds
    /\ ~TakeProfitHolds

\* C12: on a tick whose strategy signal is not 'sell', with neither stop-loss
\* nor take-profit triggered, no step calls place_order('sell'): neither the
\* risk check that precedes the strategy nor the one that follows a 'hold'.
C12_MinProfitNeverInitiatesSell ==
    [][(/\ has_open_position(position)
        /\ ~StopLossHolds
        /\ ~TakeProfitHolds
        /\ (tick.pc = "risk" \/ tick'.signal # "sell")) =>
           ~PlacesOrder("sell")]_vars

C15_SellWithoutPositionIsHarmless ==
    [][(/\ tick.pc = "strategy"
        /\ tick'.signal = "sell"
        /\ ~has_open_position(position)) =>
           /\ orders' = orders
           /\ ~tick'.stop_event_set
           /\ tick'.pc = "get"]_vars

\* The processor holds a dequeued price it has not acknowledged yet.
InTick == tick.pc \in {"risk", "strategy"}

\* C16: price_queue.task_done() has been called once for every price
\* dequeued, except for the price being worked on: the queue's unfinished
\* count is the number of prices not yet consumed.
C16_EveryPriceAcknowledgedOnce ==
    nTaskDone = IF InTick THEN nTicks - 1 ELSE nTicks

\* The window is the tail of the initial history followed by the dequeued
\* prices, in order.
WindowIsTail ==
    LET w == price_history_deque
        n == Len(all_prices)
    IN  /\ Len(w) = Smaller(n, PRICE_HISTORY_MAX_LEN)
        /\ \A i \in 1..Len(w) : w[i] = all_prices[n - Len(w) + i]

\* The window has been built from an accepted initial history.
WindowBuilt == tick.pc # "init" /\ all_prices # <<>>

\* C17: the window never holds more than PRICE_HISTORY_MAX_LEN prices; after
\* an initial history of N0 prices and k dequeued prices it holds
\* min(N0 + k, PRICE_HISTORY_MAX_LEN) prices, the last ones of the
\* concatenated sequence in order; and appending a price drops the oldest
\* one exactly when the window is at capacity.
C17_WindowInvariant ==
    /\ [](/\ Len(price_history_deque) <= PRICE_HISTORY_MAX_LEN
          /\ WindowIsTail
          /\ WindowBuilt =>
                Len(price_history_deque) =
                    Smaller(tick.fetch.size + nTicks, PRICE_HISTORY_MAX_LEN))
    /\ [][nTicks' = nTicks + 1 =>
             LET w == price_history_deque
                 drop == IF Len(w) = PRICE_HISTORY_MAX_LEN THEN 1 ELSE 0
             IN  /\ Len(price_history_deque') = Len(w) + 1 - drop
                 /\ \A i \in 1..(Len(w) - drop) :
                        price_history_deque'[i] = w[i + drop]
                 /\ price_history_deque'[Len(price_history_deque')] = tick'.price]_vars

\* A window that started one short of its capacity has taken two prices: the
\* second append dropped the oldest candle.
C17_Witness ==
    /\ tick.fetch.size = PRICE_HISTORY_MAX_LEN - 1
    /\ nTicks = 2
    /\ Len(price_history_deque) = PRICE_HISTORY_MAX_LEN
    /\ Head(price_history_deque) = 2

\* The history fetch has been made and it raised or returned fewer than
\* MIN_PRICE_HISTORY_FOR_TRADE prices.
HistoryRejected ==
    /\ tick.pc # "init"
    /\ tick.fetch.raises \/ tick.fetch.size < MIN_PRICE_HISTORY_FOR_TRADE

\* C18: after a history fetch that raised or returned fewer than
\* MIN_PRICE_HISTORY_FOR_TRADE prices the processor has ended with the stop
\* event set, and it never dequeues a price, calls task_done or place_order,
\* or builds its window.
C18_InsufficientHistoryStops ==
    HistoryRejected =>
        /\ tick.pc = "ended"
        /\ tick.stop_event_set
        /\ nTicks = 0
        /\ nTaskDone = 0
        /\ orders = <<>>
        /\ price_history_deque = <<>>

\* The fetch returned one price too few and the processor has ended.
C18_Witness ==
    /\ ~tick.fetch.raises
    /\ tick.fetch.size = MIN_PRICE_HISTORY_FOR_TRADE - 1
    /\ tick.pc = "ended"
    /\ tick.stop_event_set
    /\ nTicks = 0

\* C19: whenever the price_processor coroutine of a session has returned,
\* after an exception or after a cancellation, the session's stop event is
\* set.
C19_StopEventSetAtTermination ==
    \A s \in Sessions :
        (/\ task[ProcessorId(s)].st = "done"
         /\ task[ProcessorId(s)].res = "ok") => stop_event[s] = "set"

\* C20: a step of a tick in which the indicator evaluation raises, or in
\* which place_order fails or raises, leaves the position store unchanged
\* and the stop event unset, and does not end the processor.
C20_BadTickIsHold ==
    [][(/\ tick.pc \in {"risk", "strategy"}
        /\ tick'.indicators = "raises" \/ tick'.failed) =>
           /\ position' = position
           /\ ~tick'.stop_event_set
           /\ tick'.pc # "ended"]_vars

\* The latest call was a save_last_buy_price, of either module, made while a
\* position was open.
SavedWhileOpen ==
    /\ store_call.fn \in {"position_manager.save_last_buy_price",
                          "profit_check.save_last_buy_price"}
    /\ has_open_position(store_call.before)

\* C21: save_last_buy_price(symbol, p) for a symbol that has an open position
\* is a no-op: the stored entry price after the call is the one stored before
\* it, for every p.
C21_SaveWhileOpenIsNoOp ==
    SavedWhileOpen => position = store_call.before

\* C22: a position record is created only by a confirmed buy: in every step
\* in which has_open_position turns from false to true, the step's last
\* place_order call was a 'buy' that returned success, and the record holds
\* the price of that buy.
C22_PositionCreatedOnlyByConfirmedBuy ==
    [][(~has_open_position(position) /\ has_open_position(position')) =>
           /\ orders' = Append(orders, "buy")
           /\ reasons' = Append(reasons, "strategy_buy")
           /\ ~tick'.failed
           /\ position' = tick.price]_vars

\* A tick that began without a position has bought at the dequeued price.
C22_Witness ==
    /\ orders = <<"buy">>
    /\ ~tick.failed
    /\ has_open_position(position)
    /\ position = tick.price
    /\ nTicks = MaxTicks

Delivered == processor'.pc = "busy" /\ processor.pc # "busy"

\* C24: closing prices reach price_processor in the order in which the
\* worker thread received them over one connection: every price handed to
\* the processor was received later than the one handed to it before, so
\* none is overtaken and none comes twice, also when the queue is full and
\* several scheduled puts are pending.
C24_PricesDeliveredInOrder ==
    [][(Delivered /\ worker.connects <= 1) =>
           processor'.price > processor.price]_vars

\* A price handed to the event loop has not been stored in the queue yet:
\* its put is scheduled, or waits among the putters.
PushPending ==
    \/ price_queue.putters # <<>>
    \/ \E i \in 1..Len(loop_ready) : loop_ready[i].k \in {"submit", "put"}

\* C25: a full queue holds the worker thread back: while the queue is full
\* and a push of the thread is pending, the thread does not receive a
\* further closing price.
C25_FullQueueHoldsWorkerBack ==
    [][(full(price_queue) /\ PushPending) => nPrices' = nPrices]_vars

\* C26: when the attempts to connect keep failing, the worker thread gives
\* up: if from some time on it holds no connection, it eventually sets the
\* stop event and terminates.
C26_GivesUpAfterRepeatedFailures ==
    <>[](worker.websocket_connection = "None") =>
        <>(stop_event_local /\ worker.pc = "done")

\* The worker thread has just handled a message that cannot be decoded, or
\* the close of the connection by the exchange.
LeavesConnection ==
    /\ worker.pc = "recv"
    /\ ~is_set(stop_event_local)
    /\ worker' # worker
    /\ worker'.message \in {"undecodable", "remote_close"}

\* C27: an undecodable message, like the close of the connection by the
\* exchange, makes the worker thread leave the receive loop, close the
\* connection and go into the backoff delay before it connects again.
C27_MalformedMessageReconnects ==
    [][LeavesConnection =>
           /\ worker'.pc = "backoff"
           /\ worker'.websocket_connection = "None"
           /\ open_sockets' = open_sockets - 1]_vars

\* listen_klines has ended with the event set and with its worker thread
\* ended or reported as still alive after the join.
ListenerFinishedLoudly ==
    listener.pc = "done" =>
        /\ stop_event_local
        /\ worker.pc = "done" \/ listener.log = "not_finished_error"

\* C28: when the listen_klines task of a session is done, on whatever path,
\* the session's stop event is set.
C28_ListenerDoneImpliesEventSet ==
    \A s \in Sessions :
        task[ListenerId(s)].st = "done" => stop_event[s] = "set"

\* C29: when the worker thread has terminated, every WebSocket connection
\* it created has been closed.
C29_NoSocketLeftOpen ==
    worker.pc = "done" => open_sockets = 0

\* The worker thread has terminated after it had created more than one
\* connection.
C29_Witness ==
    /\ worker.pc = "done"
    /\ worker.connects = 2
    /\ nPrices = MaxPrices

\* Every component of the session has terminated.
AllTerminated ==
    /\ worker.pc = "done"
    /\ processor.pc = "done"
    /\ listener.pc = "done"
    /\ session_done

\* C30: once the stop event is set, by whichever component, the worker
\* thread, price_processor, listen_klines and trade_main all terminate.
C30_StopEventEndsEveryComponent ==
    stop_event_local ~> AllTerminated

\* The session has ended with every component terminated, after all the
\* prices had been received.
C30_Witness ==
    /\ AllTerminated
    /\ stop_event_local
    /\ nPrices = MaxPrices
    /\ processor.price > 0

\* listen_klines is waiting for its worker thread to finish.
JoinInProgress == listener.pc = "join"

\* C31: the wait for the worker thread is a suspension point: while
\* listen_klines waits for the thread, a callback that is ready on the event
\* loop can run, and a price_processor that has finished a tick can go on.
C31_JoinDoesNotBlockTheLoop ==
    /\ (JoinInProgress /\ loop_ready # <<>>) =>
           ENABLED (loop_submit \/ loop_put \/ loop_get)
    /\ (JoinInProgress /\ processor.pc = "busy") =>
           ENABLED price_processor_tick

\* The tasks registered in CURRENT_STATE.
RegisteredTasks ==
    {<<k, CURRENT_STATE[k]>> :
        k \in {k \in {"main_task", "listener_task", "processor_task"} :
                  CURRENT_STATE[k] # None}}

\* stop_trading call c begins on a session that has already failed: the
\* registered stop_event is set and a registered task is done.
StopOfFailedSession(c) ==
    /\ Begins(c, "stop")
    /\ CURRENT_STATE.stop_event # None
    /\ stop_event[CURRENT_STATE.stop_event] = "set"
    /\ \E tid \in RegisteredTasks : task[tid].st = "done"

\* C32: a stop_trading call that begins with the registered stop_event
\* already set and a registered task already done sets no event again and
\* leaves every done task as it is; it awaits exactly the registered tasks
\* that are not done, or, when there is none, returns 'stopped' at once.  A
\* stop_trading call returns nothing but 'stopped' or 'already stopped', and
\* on 'stopped' CURRENT_STATE is fully cleared.
C32_StopToleratesFailedSession ==
    [][\A c \in Calls :
          /\ StopOfFailedSession(c) =>
                /\ stop_event' = stop_event
                /\ \A tid \in TaskIds :
                      task[tid].st = "done" => task'[tid] = task[tid]
                /\ IF \A tid \in RegisteredTasks : task[tid].st = "done"
                   THEN call'[c].res = "stopped"
                   ELSE /\ call'[c].st = "blocked"
                        /\ call'[c].pc = "isl_gather"
                        /\ call'[c].aw = {tid \in RegisteredTasks : Live(tid)}
                        /\ CURRENT_STATE' = CURRENT_STATE
          /\ (call[c].kind = "stop" /\ call'[c].res # call[c].res) =>
                /\ call'[c].res \in {"stopped", "already_stopped"}
                /\ call'[c].res = "stopped" => FullyCleared']_vars

\* A stop_trading call is tearing down a session whose stop_event is set and
\* whose processor is done: it has cancelled, and awaits, the root task and
\* the listener only.
C32_Witness ==
    \E c \in Calls :
        /\ call[c].kind = "stop"
        /\ call[c].pc = "isl_gather"
        /\ CURRENT_STATE.processor_task = 1
        /\ task[ProcessorId(1)].st = "done"
        /\ stop_event[1] = "set"
        /\ call[c].aw = {MainId(1), ListenerId(1)}
        /\ task[MainId(1)].gcr
        /\ task[ListenerId(1)].mc

\* What start_trading and stop_trading return.
StatusStrings(kind) ==
    IF kind = "start" THEN {"started", "already_running"}
    ELSE {"stopped", "already_stopped"}

\* Call c has returned to its caller with one of its status strings.
Returned(c) ==
    /\ call[c].st = "done"
    /\ call[c].res \in StatusStrings(call[c].kind)

ThreadDied == worker.pc = "done" /\ worker.message = "exception"

\* listen_klines leaves its polling loop in this step.
ListenerLeavesLoop == listener.pc = "sleep" /\ listener'.pc # "sleep"

\* C34: listen_klines leaves its polling loop only with the stop_event set,
\* in particular when it finds the worker thread gone with the event unset
\* and when an unexpected exception is raised in it; and once the worker
\* thread has ended by itself, price_processor, listen_klines and trade_main
\* all end.
C34_ListenerFailureSetsEvent ==
    /\ [][ListenerLeavesLoop => stop_event_local']_vars
    /\ ThreadDied ~> AllTerminated

\* listen_klines found its thread gone with the event unset and set the
\* event; the processor and trade_main have ended as well.
C34_Witness ==
    /\ ThreadDied
    /\ listener = [pc |-> "done", log |-> "already_finished"]
    /\ AllTerminated
    /\ stop_event_local

\* This step runs check_and_handle_risk_conditions: step 1 of a tick, or the
\* check of a 'sell' or 'hold' tick.
RiskCheckStep ==
    /\ tick' # tick
    /\ \/ tick.pc = "risk"
       \/ tick.pc = "strategy" /\ tick'.signal \in {"sell", "hold"}

\* C35: a risk check that reads a balance of exactly zero leaves the position
\* cleared and calls place_order not at all, and a risk check that finds the
\* position already cleared changes neither the position nor the orders.
C35_ReconciliationIsIdempotentAndNeverTrades ==
    [][RiskCheckStep =>
          /\ tick'.zero_balance => (position' = None /\ orders' = orders)
          /\ position = None => (position' = None /\ orders' = orders)]_vars

\* Step 1 of a tick has read a zero balance with a position open and has
\* cleared it without an order; the tick goes on to its strategy step.
C35_Witness ==
    /\ tick.zero_balance
    /\ tick.pc = "strategy"
    /\ position = None
    /\ orders = <<>>

\* This step calls place_order(action_type) and the call returns success.
OrderConfirmed(action_type) ==
    /\ PlacesOrder(action_type)
    /\ ~tick'.failed

\* C36: a step in which place_order('buy') returned success leaves the bought
\* price recorded, and a step in which place_order('sell') returned success
\* leaves the position cleared, also when the processor is cancelled in that
\* step.
C36_ConfirmationAndStoreUpdateTogether ==
    [][/\ OrderConfirmed("buy") => position' = tick.price
       /\ OrderConfirmed("sell") => position' = None]_vars

\* This step is the 'sell' branch of a tick: check_buy_sell_signals has
\* returned 'sell'.
StrategySellStep == tick.pc = "strategy" /\ tick'.signal = "sell"

\* C37: with a position open, the return of the price in hand at or above
\* MIN_PROFIT_RATIO and neither stop-loss nor take-profit triggered, the tick
\* in which the strategy returns 'sell' has made exactly one place_order
\* call, a sell, when its 'sell' branch is through, and a sell confirmed in
\* that branch leaves the position cleared.
C37_StrategySellAboveMinProfitSells ==
    [][(/\ StrategySellStep
        /\ has_open_position(position)
        /\ ~ReturnBelow(tick.price, position, settings.MIN_PROFIT_RATIO)
        /\ ~StopLossHolds
        /\ ~TakeProfitHolds) =>
           /\ orders' = <<"sell">>
           /\ OrderConfirmed("sell") => position' = None]_vars

\* The price in hand is below the stored entry price, and the stop-loss is
\* not triggered.
LossAboveStopLoss ==
    /\ has_open_position(position)
    /\ tick.price < position
    /\ ~StopLossHolds

SessionRegistered ==
    /\ CURRENT_STATE.running
    /\ RegisteredLive("main_task")
    /\ CURRENT_STATE.stop_event # None
    /\ CURRENT_STATE.listener_task # None

\* C39: when a start_trading call returns the 'trading started' message, a
\* session is registered at that moment.
C39_StartedMeansSessionRegistered ==
    [][\A c \in Calls :
          (call[c].res = "" /\ call'[c].res = "started") =>
              SessionRegistered']_vars

\* The latest call of the position store's functions was a take-profit check.
TakeProfitChecked == store_call.fn = "is_take_profit_reached"

====
